------------------------------ MODULE Spec2Model ------------------------------
(***************************************************************************)
(* A model of deploy_magma.py, the interactive Magma deployment wizard:    *)
(* the prompt parsers and validators as operators over character           *)
(* sequences, the script templates as lists of substitution slots, and     *)
(* the run (main -> run_deployment -> welcome, prerequisites, collection,  *)
(* confirmation, deployment, summary) as a state machine.                  *)
(*                                                                         *)
(* A Python string is a sequence of one-character strings, so that         *)
(* lower(), strip() and split() are computed and not assumed.              *)
(***************************************************************************)
EXTENDS Integers, Sequences, FiniteSets, TLC

VARIABLES
    pc,          \* where the process is: main, welcome, prereq, ..., exited
    args,        \* the parsed command line: config given, skip_prerequisites, dry_run
    cfgFile,     \* what opening and parsing the --config file yields
    config,      \* self.config
    loaded,      \* the configuration as it was loaded from --config, or NotLoaded
    asked,       \* the prompts asked so far (prompt labels; "... again": a validation loop asked again)
    saved,       \* the contents written to config/deployment_config.yaml, in order
    scripts,     \* the script files written in this run, in order: [name, content]
    commands,    \* the external commands issued, in order: [cmd, ok]
    missing,     \* missing_deps of check_prerequisites / install_prerequisites
    todo,        \* the commands of the installer still to be issued
    idx,         \* deploy_components: position in config["components"]
    out,         \* the status lines printed by main and run_deployment, in order
    summary,     \* the lines display_deployment_summary printed, or <<>>
    ret,         \* what run_deployment returned: "none", "true", "false"
    exitCode,    \* the exit status of the process, or NoExit
    cHist,       \* confirm_action on its own: the answers read so far
    cRet,        \* confirm_action on its own: "none", "true" or "false"
    eIn,         \* validate_email on its own: the argument
    eRet,        \* validate_email on its own: "none", "true" or "false"
    gCfg,        \* script generation on its own: the configuration
    gComp,       \* script generation on its own: the component
    gOut         \* script generation on its own: NotRun, or the outcome

runVars == <<pc, args, cfgFile, config, loaded, asked, saved, scripts, commands,
             missing, todo, idx, out, summary, ret, exitCode>>
confirmVars == <<cHist, cRet>>
emailVars == <<eIn, eRet>>
genVars == <<gCfg, gComp, gOut>>
vars == <<runVars, confirmVars, emailVars, genVars>>

-----------------------------------------------------------------------------
(* Bounds of the model.                                                    *)

\* confirm_action on its own reads at most this many answers
MaxPrompts == 3
\* validate_email on its own is applied to every string over {a, @, .} up to this length
MaxEmailLen == 4
\* script generation on its own: at most this many fields removed from a full configuration
MaxMissing == 1
\* a prompt of the run is answered within this many attempts
MaxTries == 2

-----------------------------------------------------------------------------
(* Strings.                                                                *)

S_empty == <<>>
S_y == <<"y">>
S_yes == <<"y", "e", "s">>
S_n == <<"n">>
S_no == <<"n", "o">>
S_Y == <<"Y">>
S_YES == <<"Y", "E", "S">>
S_Yes == <<"Y", "e", "s">>
S_N == <<"N">>
S_NO == <<"N", "O">>
S_No == <<"N", "o">>
S_y_padded == <<" ", "y">>
S_n_padded == <<"n", " ">>
S_space == <<" ">>
S_x == <<"x">>
S_maybe == <<"m", "a", "y", "b", "e">>
S_yy == <<"y", "y">>
S_0 == <<"0">>
S_1 == <<"1">>
S_2 == <<"2">>
S_3 == <<"3">>
S_4 == <<"4">>
S_5 == <<"5">>
S_6 == <<"6">>
S_magma_local == <<"m", "a", "g", "m", "a", ".", "l", "o", "c", "a", "l">>
S_example_org == <<"e", "x", "a", "m", "p", "l", "e", ".", "o", "r", "g">>
S_ops_example_org == <<"o", "p", "s", "@", "e", "x", "a", "m", "p", "l", "e", ".", "o", "r", "g">>
S_two_at == <<"a", "@", "b", ".", "c", "@", "d">>
S_no_at == <<"o", "p", "s">>
S_no_dot == <<"o", "p", "s", "@", "e", "x", "a", "m", "p", "l", "e">>
S_https == <<"h", "t", "t", "p", "s", ":", "/", "/">>
S_colon_8080 == <<":", "8", "0", "8", "0">>
S_8080 == <<"8", "0", "8", "0">>
S_ip_a == <<"1", "0", ".", "0", ".", "0", ".", "1">>
S_ip_b == <<"1", "0", ".", "0", ".", "0", ".", "2">>
S_ip_bad == <<"1", "0", ".", "0", ".", "0", ".", "2", "5", "6">>
S_magma == <<"m", "a", "g", "m", "a">>
S_standard == <<"s", "t", "a", "n", "d", "a", "r", "d">>
S_postgresql == <<"p", "o", "s", "t", "g", "r", "e", "s", "q", "l">>
S_5432 == <<"5", "4", "3", "2">>
S_secret == <<"s", "3", "c", "r", "e", "t">>
S_tls_crt == <<"/", "o", "p", "t", "/", "m", "a", "g", "m", "a", "/", "c", "e", "r", "t", "s", "/", "t", "l", "s", ".", "c", "r", "t">>
S_tls_key == <<"/", "o", "p", "t", "/", "m", "a", "g", "m", "a", "/", "c", "e", "r", "t", "s", "/", "t", "l", "s", ".", "k", "e", "y">>
S_eth0 == <<"e", "t", "h", "0">>
S_001 == <<"0", "0", "1">>
S_01 == <<"0", "1">>
S_36412 == <<"3", "6", "4", "1", "2">>
S_fgw01 == <<"f", "g", "w", "0", "1">>
S_networks == <<"n", "e", "t", "w", "o", "r", "k", "1", ",", "n", "e", "t", "w", "o", "r", "k", "2">>
S_fgw_magma_local == <<"f", "g", "w", ".", "m", "a", "g", "m", "a", ".", "l", "o", "c", "a", "l">>
S_3868 == <<"3", "8", "6", "8">>

\* str.lower() on one character
LowerChar(c) ==
    CASE c = "A" -> "a" [] c = "B" -> "b" [] c = "C" -> "c" [] c = "D" -> "d"
      [] c = "E" -> "e" [] c = "F" -> "f" [] c = "G" -> "g" [] c = "H" -> "h"
      [] c = "I" -> "i" [] c = "J" -> "j" [] c = "K" -> "k" [] c = "L" -> "l"
      [] c = "M" -> "m" [] c = "N" -> "n" [] c = "O" -> "o" [] c = "P" -> "p"
      [] c = "Q" -> "q" [] c = "R" -> "r" [] c = "S" -> "s" [] c = "T" -> "t"
      [] c = "U" -> "u" [] c = "V" -> "v" [] c = "W" -> "w" [] c = "X" -> "x"
      [] c = "Y" -> "y" [] c = "Z" -> "z" [] OTHER -> c

\* str.lower()
Lower(s) == [i \in 1..Len(s) |-> LowerChar(s[i])]

\* the characters str.strip() removes
IsSpace(c) == c \in {" ", "\t", "\n", "\r"}

RECURSIVE LStrip(_)
LStrip(s) == IF s # <<>> /\ IsSpace(Head(s)) THEN LStrip(Tail(s)) ELSE s

RECURSIVE RStrip(_)
RStrip(s) ==
    IF s # <<>> /\ IsSpace(s[Len(s)]) THEN RStrip(SubSeq(s, 1, Len(s) - 1)) ELSE s

\* str.strip()
Strip(s) == RStrip(LStrip(s))

\* c in s
Contains(s, c) == \E i \in 1..Len(s) : s[i] = c

\* s.split(sep) for a one-character separator: the list of the parts
RECURSIVE Split(_, _)
Split(s, sep) ==
    IF ~Contains(s, sep) THEN <<s>>
    ELSE LET i == CHOOSE k \in 1..Len(s) : s[k] = sep /\ \A j \in 1..(k - 1) : s[j] # sep
         IN  <<SubSeq(s, 1, i - 1)>> \o Split(SubSeq(s, i + 1, Len(s)), sep)

\* every string over the alphabet up to length n
RECURSIVE StringsUpTo(_, _)
StringsUpTo(alphabet, n) ==
    IF n = 0 THEN {<<>>}
    ELSE LET shorter == StringsUpTo(alphabet, n - 1)
         IN  shorter \cup {Append(s, c) : s \in shorter, c \in alphabet}

\* the non-empty sequences over S of length at most n
SeqsUpTo(S, n) == UNION {[1..k -> S] : k \in 1..n}

-----------------------------------------------------------------------------
(* The Input/Validation layer.                                             *)

\* confirm_action, one turn of its loop on the answer typed:
\* "true" / "false" when it returns, "none" when it prints the hint and asks again
ConfirmStepCaseSensitive(raw) ==
    LET response == Strip(raw)
    IN  IF response \in {S_y, S_yes} THEN "true"
        ELSE IF response \in {S_n, S_no, S_empty} THEN "false"
        ELSE "none"

ConfirmStep(raw) ==
    LET response == Strip(Lower(raw))
    IN  IF response \in {S_y, S_yes} THEN "true"
        ELSE IF response \in {S_n, S_no, S_empty} THEN "false"
        ELSE "none"

\* confirm_action on the answers typed, in order: the answer it returns on, "none" if
\* it is still asking after the last one
RECURSIVE confirm_action(_)
confirm_action(answers) ==
    IF answers = <<>> THEN "none"
    ELSE IF ConfirmStep(Head(answers)) # "none" THEN ConfirmStep(Head(answers))
    ELSE confirm_action(Tail(answers))

\* the number of answers confirm_action reads of those typed
RECURSIVE ConfirmReads(_)
ConfirmReads(answers) ==
    IF answers = <<>> THEN 0
    ELSE IF ConfirmStep(Head(answers)) # "none" THEN 1
    ELSE 1 + ConfirmReads(Tail(answers))

\* get_user_input, one turn of its loop: [done, value]. No default is the empty
\* string (the code tests "if default", which None and "" both fail)
GetUserInputStep(raw, default, required) ==
    LET response == Strip(raw)
    IN  IF response # <<>> THEN [done |-> TRUE, value |-> response]
        ELSE IF default # <<>> THEN [done |-> TRUE, value |-> default]
        ELSE IF ~required THEN [done |-> TRUE, value |-> <<>>]
        ELSE [done |-> FALSE, value |-> <<>>]

\* get_user_input on the answers typed: [done, value, rest]
RECURSIVE get_user_input(_, _, _)
get_user_input(answers, default, required) ==
    IF answers = <<>> THEN [done |-> FALSE, value |-> <<>>, rest |-> <<>>]
    ELSE LET r == GetUserInputStep(Head(answers), default, required)
         IN  IF r.done THEN [done |-> TRUE, value |-> r.value, rest |-> Tail(answers)]
             ELSE get_user_input(Tail(answers), default, required)

\* get_password: getpass returns the line as typed
get_password(raw) == raw

\* validate_email
validate_email(email) ==
    Contains(email, "@") /\ Contains(Split(email, "@")[2], ".")

IsDigit(c) == c \in {"0", "1", "2", "3", "4", "5", "6", "7", "8", "9"}

IsHexDigit(c) ==
    IsDigit(c) \/ c \in {"a", "b", "c", "d", "e", "f", "A", "B", "C", "D", "E", "F"}

DigitValue(c) ==
    CASE c = "0" -> 0 [] c = "1" -> 1 [] c = "2" -> 2 [] c = "3" -> 3 [] c = "4" -> 4
      [] c = "5" -> 5 [] c = "6" -> 6 [] c = "7" -> 7 [] c = "8" -> 8 [] c = "9" -> 9

\* int(s, 10) of a string of digits
RECURSIVE DecimalValue(_)
DecimalValue(s) ==
    IF s = <<>> THEN 0
    ELSE 10 * DecimalValue(SubSeq(s, 1, Len(s) - 1)) + DigitValue(s[Len(s)])

\* ipaddress._BaseV4._parse_octet succeeds
OctetOk(o) ==
    /\ o # <<>>
    /\ \A i \in 1..Len(o) : IsDigit(o[i])
    /\ Len(o) <= 3
    /\ ~(o # <<"0">> /\ o[1] = "0")
    /\ DecimalValue(o) <= 255

\* ipaddress.IPv4Address(ip) succeeds
IPv4Ok(ip) ==
    /\ ~Contains(ip, "/")
    /\ LET octets == Split(ip, ".")
       IN  Len(octets) = 4 /\ \A i \in 1..4 : OctetOk(octets[i])

\* ipaddress._BaseV6._parse_hextet succeeds
HextetOk(h) == h # <<>> /\ Len(h) <= 4 /\ \A i \in 1..Len(h) : IsHexDigit(h[i])

\* ipaddress._BaseV6._ip_int_from_string succeeds on the address without its scope
IPv6PartsOk(ip) ==
    LET parts0 == Split(ip, ":")
        last == parts0[Len(parts0)]
        embedded == Contains(last, ".")
        \* an embedded IPv4 address is replaced by its two hextets
        parts == IF embedded
                 THEN SubSeq(parts0, 1, Len(parts0) - 1) \o <<<<"0">>, <<"0">>>>
                 ELSE parts0
        n == Len(parts)
        gaps == {i \in 2..(n - 1) : parts[i] = <<>>}
    IN  /\ ip # <<>>
        /\ Len(parts0) >= 3
        /\ embedded => IPv4Ok(last)
        /\ n <= 9
        /\ Cardinality(gaps) <= 1
        /\ IF gaps # {}
           THEN LET skip == CHOOSE i \in gaps : TRUE
                    hi == IF parts[1] = <<>> THEN skip - 2 ELSE skip - 1
                    lo == IF parts[n] = <<>> THEN n - skip - 1 ELSE n - skip
                IN  /\ parts[1] = <<>> => hi = 0
                    /\ parts[n] = <<>> => lo = 0
                    /\ 8 - (hi + lo) >= 1
                    /\ \A i \in (1..hi) \cup ((n - lo + 1)..n) : HextetOk(parts[i])
           ELSE /\ n = 8
                /\ \A i \in 1..n : HextetOk(parts[i])

\* ipaddress.IPv6Address(ip) succeeds
IPv6Ok(ip) ==
    /\ ~Contains(ip, "/")
    /\ IF Contains(ip, "%")
       THEN LET i == CHOOSE k \in 1..Len(ip) : ip[k] = "%" /\ \A j \in 1..(k - 1) : ip[j] # "%"
                scope == SubSeq(ip, i + 1, Len(ip))
            IN  scope # <<>> /\ ~Contains(scope, "%") /\ IPv6PartsOk(SubSeq(ip, 1, i - 1))
       ELSE IPv6PartsOk(ip)

\* validate_ip_address: ipaddress.ip_address(ip) does not raise ValueError
validate_ip_address(ip) == IPv4Ok(ip) \/ IPv6Ok(ip)

-----------------------------------------------------------------------------
(* The configuration and the script templates.                             *)

\* a mapping without one of its keys
Without(m, k) == [x \in (DOMAIN m) \ {k} |-> m[x]]

\* a mapping with a key set (d[k] = v of a Python dict)
With(m, k, v) == [x \in (DOMAIN m) \cup {k} |-> IF x = k THEN v ELSE m[x]]

\* MagmaDeployment.__init__: self.config = {}
EmptyConfig == [x \in {} |-> <<>>]

\* the component tags, in the order of the custom selection
Components == <<"orchestrator", "agw", "fgw", "nms">>

\* the sub-record of each component that has one
SubRecordOf == [orchestrator |-> "orchestrator", agw |-> "agw", fgw |-> "fgw"]

\* ", ".join(parts) and the like
RECURSIVE Join(_, _)
Join(parts, sep) ==
    IF parts = <<>> THEN <<>>
    ELSE IF Len(parts) = 1 THEN parts[1]
    ELSE parts[1] \o sep \o Join(Tail(parts), sep)

\* str() of a list of strings, as an f-string renders it: ['a', 'b']
PyListRepr(l) ==
    <<"[">> \o Join([i \in 1..Len(l) |-> <<"'">> \o l[i] \o <<"'">>], <<",", " ">>) \o <<"]">>

\* One substitution point of a template. sec is the sub-record ("" for a top-level
\* key), get says the template reads the key with .get(key, default), list says the
\* value is a list; a literal is fixed text of the template that a claim names.
Slot(at, sec, key) ==
    [at |-> at, sec |-> sec, key |-> key, get |-> FALSE, default |-> <<>>,
     list |-> FALSE, literal |-> FALSE]
SlotGet(at, sec, key, default) ==
    [at |-> at, sec |-> sec, key |-> key, get |-> TRUE, default |-> default,
     list |-> FALSE, literal |-> FALSE]
SlotList(at, sec, key) ==
    [at |-> at, sec |-> sec, key |-> key, get |-> FALSE, default |-> <<>>,
     list |-> TRUE, literal |-> FALSE]
Literal(at, text) ==
    [at |-> at, sec |-> "", key |-> "", get |-> FALSE, default |-> text,
     list |-> FALSE, literal |-> TRUE]

\* generate_orchestrator_script: the substitutions of the template, in order
OrchestratorTemplate ==
    << SlotGet("tls_cert_test", "orchestrator", "tls_cert_path", S_tls_crt),
       Slot("openssl_cn", "", "domain"),
       Slot("postgresql.namespace", "orchestrator", "namespace"),
       Slot("auth.postgresPassword", "orchestrator", "db_password"),
       Slot("auth.database", "orchestrator", "db_name"),
       Slot("auth.username", "orchestrator", "db_user"),
       Slot("primary.persistence.storageClass", "orchestrator", "storage_class"),
       Slot("wait.namespace", "orchestrator", "namespace"),
       Slot("orc8r.namespace", "orchestrator", "namespace"),
       Slot("global.domain", "", "domain"),
       Slot("postgresql.host", "orchestrator", "db_host"),
       Slot("postgresql.port", "orchestrator", "db_port"),
       Slot("postgresql.user", "orchestrator", "db_user"),
       Slot("postgresql.password", "orchestrator", "db_password"),
       Slot("postgresql.database", "orchestrator", "db_name"),
       SlotGet("tls.crt", "orchestrator", "tls_cert_path", S_tls_crt),
       SlotGet("tls.key", "orchestrator", "tls_key_path", S_tls_key) >>

\* generate_agw_script
AgwTemplate ==
    << Slot("mme.mcc", "agw", "mcc"),
       Slot("mme.mnc", "agw", "mnc"),
       Slot("mme.tac", "agw", "tac"),
       Slot("mme.csfb_mcc", "agw", "mcc"),
       Slot("mme.csfb_mnc", "agw", "mnc"),
       Slot("mme.s1ap_ip", "agw", "s1ap_ip"),
       Slot("mme.s1ap_port", "agw", "s1ap_port"),
       Slot("spgw.gtpu_endpoint", "agw", "ip_address"),
       Slot("plmn.mcc", "agw", "mcc"),
       Slot("plmn.mnc", "agw", "mnc") >>

\* generate_fgw_script
FgwTemplate ==
    << Slot("federation_id", "fgw", "federation_id"),
       SlotList("served_network_ids", "fgw", "served_network_ids"),
       Slot("diameter.host", "fgw", "diameter_host"),
       Slot("diameter.realm", "fgw", "diameter_realm"),
       Slot("diameter.port", "fgw", "diameter_port") >>

\* generate_nms_script
NmsTemplate ==
    << Slot("nms.namespace", "orchestrator", "namespace"),
       Slot("global.domain", "", "domain"),
       Slot("nms.admin.email", "", "admin_email"),
       Slot("nms.host", "", "domain"),
       Literal("nms.port", S_8080) >>

TemplateOf ==
    [orchestrator |-> OrchestratorTemplate, agw |-> AgwTemplate,
     fgw |-> FgwTemplate, nms |-> NmsTemplate]

\* the file each deploy_* writes its script to, under scripts/
ScriptName ==
    [orchestrator |-> "deploy_orchestrator.sh", agw |-> "deploy_agw.sh",
     fgw |-> "deploy_fgw.sh", nms |-> "deploy_nms.sh"]

\* A substitution that silently renders an absent key as the empty string.
LookupSilent(cfg, slot) ==
    IF slot.literal THEN [found |-> TRUE, val |-> slot.default]
    ELSE IF slot.sec = ""
    THEN IF slot.key \in DOMAIN cfg
         THEN [found |-> TRUE, val |-> cfg[slot.key]]
         ELSE [found |-> TRUE, val |-> <<>>]
    ELSE IF slot.sec \notin DOMAIN cfg THEN [found |-> TRUE, val |-> <<>>]
    ELSE IF slot.key \in DOMAIN cfg[slot.sec]
         THEN [found |-> TRUE, val |-> cfg[slot.sec][slot.key]]
    ELSE [found |-> TRUE, val |-> IF slot.get THEN slot.default ELSE <<>>]

\* The expression of one substitution point, evaluated on self.config:
\* config[key], config[sec][key] or config[sec].get(key, default).
\* [found, val], or [found = FALSE, key] for the KeyError it raises.
Lookup(cfg, slot) ==
    IF slot.literal THEN [found |-> TRUE, val |-> slot.default]
    ELSE IF slot.sec = ""
    THEN IF slot.key \in DOMAIN cfg
         THEN [found |-> TRUE, val |-> cfg[slot.key]]
         ELSE [found |-> FALSE, key |-> slot.key]
    ELSE IF slot.sec \notin DOMAIN cfg THEN [found |-> FALSE, key |-> slot.sec]
    ELSE IF slot.key \in DOMAIN cfg[slot.sec]
         THEN [found |-> TRUE, val |-> cfg[slot.sec][slot.key]]
    ELSE IF slot.get THEN [found |-> TRUE, val |-> slot.default]
    ELSE [found |-> FALSE, key |-> slot.key]

\* The f-string of a template, evaluated left to right: the text substituted at each
\* point, or the first KeyError.
RECURSIVE Render(_, _)
Render(cfg, template) ==
    IF template = <<>> THEN [ok |-> TRUE, content |-> <<>>]
    ELSE LET slot == Head(template)
             v == Lookup(cfg, slot)
         IN  IF ~v.found THEN [ok |-> FALSE, error |-> "KeyError", key |-> v.key]
             ELSE LET rest == Render(cfg, Tail(template))
                      text == IF slot.list THEN PyListRepr(v.val) ELSE v.val
                  IN  IF ~rest.ok THEN rest
                      ELSE [ok |-> TRUE,
                            content |-> <<[at |-> slot.at, val |-> text]>> \o rest.content]

\* generate_*_script(script_path): the content written, or the KeyError raised before
\* the file is opened
GenerateScript(cfg, comp) == Render(cfg, TemplateOf[comp])

\* "x" in self.config["components"]
Selected(cfg, comp) == \E i \in 1..Len(cfg.components) : cfg.components[i] = comp

\* one print of display_deployment_summary that shows configuration values:
\* pre, the values joined by sep, post
SummaryLine(at, pre, slots, sep, post) ==
    [at |-> at, pre |-> pre, slots |-> slots, sep |-> sep, post |-> post]

\* display_deployment_summary: the prints that show configuration values, in order
SummaryTemplate(cfg) ==
    (IF Selected(cfg, "orchestrator")
     THEN << SummaryLine("Orchestrator", S_https, <<Slot("v", "", "domain")>>, <<>>, <<>>),
             SummaryLine("Namespace", <<>>, <<Slot("v", "orchestrator", "namespace")>>,
                         <<>>, <<>>) >>
     ELSE <<>>)
    \o
    (IF Selected(cfg, "nms")
     THEN << SummaryLine("NMS Portal", S_https, <<Slot("v", "", "domain")>>, <<>>,
                         S_colon_8080),
             SummaryLine("Admin Email", <<>>, <<Slot("v", "", "admin_email")>>, <<>>, <<>>) >>
     ELSE <<>>)
    \o
    (IF Selected(cfg, "agw")
     THEN << SummaryLine("Access Gateway", <<>>, <<Slot("v", "agw", "ip_address")>>,
                         <<>>, <<>>),
             SummaryLine("Network", <<>>,
                         <<Slot("v", "agw", "mcc"), Slot("v", "agw", "mnc")>>, <<"-">>, <<>>) >>
     ELSE <<>>)
    \o
    (IF Selected(cfg, "fgw")
     THEN << SummaryLine("Federated Gateway", <<>>, <<Slot("v", "fgw", "federation_id")>>,
                         <<>>, <<>>),
             SummaryLine("Diameter", <<>>,
                         <<Slot("v", "fgw", "diameter_host"), Slot("v", "fgw", "diameter_port")>>,
                         <<":">>, <<>>) >>
     ELSE <<>>)

\* the prints of the summary, in order, up to the first KeyError:
\* [ok, printed] or [ok = FALSE, error, key, printed]
RECURSIVE PrintSummary(_, _)
PrintSummary(cfg, lines) ==
    IF lines = <<>> THEN [ok |-> TRUE, printed |-> <<>>]
    ELSE LET line == Head(lines)
             r == Render(cfg, line.slots)
         IN  IF ~r.ok
             THEN [ok |-> FALSE, error |-> r.error, key |-> r.key, printed |-> <<>>]
             ELSE LET text == line.pre
                              \o Join([i \in 1..Len(r.content) |-> r.content[i].val], line.sep)
                              \o line.post
                      rest == PrintSummary(cfg, Tail(lines))
                      here == <<[at |-> line.at, val |-> text]>>
                  IN  IF rest.ok THEN [ok |-> TRUE, printed |-> here \o rest.printed]
                      ELSE [ok |-> FALSE, error |-> rest.error, key |-> rest.key,
                            printed |-> here \o rest.printed]

\* display_deployment_summary
display_deployment_summary(cfg) ==
    IF "components" \notin DOMAIN cfg
    THEN [ok |-> FALSE, error |-> "KeyError", key |-> "components", printed |-> <<>>]
    ELSE PrintSummary(cfg, SummaryTemplate(cfg))

-----------------------------------------------------------------------------
(* What the operator types and what the environment answers.               *)

\* answers typed at a yes/no prompt of the run
RunConfirmInputs == {S_y, S_N, S_empty, S_maybe}

\* the answer sequences on which confirm_action returns, reading all of them
ConfirmAnswers ==
    {a \in SeqsUpTo(RunConfirmInputs, MaxTries) :
        confirm_action(a) # "none" /\ ConfirmReads(a) = Len(a)}

\* what confirm_action returns on them
ConfirmOutcomes == {confirm_action(a) : a \in ConfirmAnswers}

\* answers typed at the component menu
ChoiceInputs == {S_empty, S_1, S_2, S_3, S_4, S_5, S_6}

\* answers typed at the domain prompt
DomainInputs == {S_empty, S_example_org}

\* answers typed at the admin email prompt
EmailInputs == {S_empty, S_no_at, S_no_dot, S_ops_example_org}

\* answers typed at an IP address prompt
IpInputs == {S_empty, S_ip_bad, S_ip_a}

\* answers typed at the namespace prompt
NamespaceInputs == {S_empty}

\* answers typed at the database password prompt
PasswordInputs == {S_empty, S_secret}

\* the tools check_prerequisites probes, in order
Tools == <<"docker", "docker-compose", "kubectl", "helm", "git">>

\* the sets of tools that "which" does not find
MissingSets == {{}, {"docker", "git"}, {"docker-compose", "kubectl", "helm"}}

\* the distribution markers /etc/os-release may contain
OsReleases == {{"ubuntu", "debian"}, {"centos", "rhel"}, {}}

\* a configuration file with the orchestrator only
FileOrchestrator ==
    [components |-> <<"orchestrator">>,
     domain |-> S_magma_local,
     admin_email |-> S_ops_example_org,
     network |-> [external_ip |-> S_ip_b],
     orchestrator |->
        [namespace |-> S_magma, storage_class |-> S_standard, db_host |-> S_postgresql,
         db_port |-> S_5432, db_user |-> S_magma, db_password |-> S_secret,
         db_name |-> S_magma, tls_cert_path |-> S_tls_crt, tls_key_path |-> S_tls_key]]

\* a configuration file with the console only
FileNms ==
    [components |-> <<"nms">>,
     domain |-> S_example_org,
     admin_email |-> S_ops_example_org,
     network |-> [external_ip |-> S_ip_b]]

\* what yaml.safe_load of the --config file may give
FileConfigs == {FileOrchestrator, FileNms}

-----------------------------------------------------------------------------
(* The run.                                                                *)

NoExit == -1

\* the status of a process ended by an uncaught KeyboardInterrupt (SIGINT)
UncaughtInterruptStatus == 128 + 2

\* welcome_message: sys.exit(0)
WelcomeDeclineCodeFailure == 0 + 1
WelcomeDeclineCode == 0

\* main: sys.exit(1) when the configuration cannot be loaded
LoadErrorCode == 1

\* main: the exit status for what run_deployment returned
ExitCodeOf(result) == IF result = "true" THEN 0 ELSE 1

\* run_deployment: the handler of KeyboardInterrupt returns False
InterruptResultTrue == "true"
InterruptResult == "false"

\* check_prerequisites: the operator declines the installation
DeclinedInstallProceeds == "true"
DeclinedInstallResult == "false"

\* run_command: subprocess.run(check=check) raises CalledProcessError, which
\* run_command logs and raises again
RaisesNever(check, ok) == FALSE
Raises(check, ok) == check /\ ~ok

\* the places of run_deployment where the process waits for the operator or for a command
InRun == {"welcome", "prereq", "ask_install", "install", "select", "general",
          "orc8r", "agw", "fgw", "save", "proceed", "deploy", "namespace",
          "generate", "chmod", "execute"}

\* the prompts of the questionnaire
SelectionPrompts ==
    {"choice", "Deploy ORCHESTRATOR?", "Deploy AGW?", "Deploy FGW?", "Deploy NMS?"}
GeneralPrompts == {"Domain name", "Admin email address", "External IP address"}
OrchestratorPrompts ==
    {"Kubernetes namespace", "Storage class", "Database host", "Database port",
     "Database user", "Database password", "Database name", "TLS certificate path",
     "TLS key path"}
AgwPrompts ==
    {"Network interface", "AGW IP address", "Mobile Country Code (MCC)",
     "Mobile Network Code (MNC)", "Tracking Area Code (TAC)", "S1AP IP address", "S1AP port"}
FgwPrompts ==
    {"Federation ID", "Served network IDs", "Diameter host", "Diameter realm",
     "Diameter port"}
ConfigPrompts ==
    SelectionPrompts \cup GeneralPrompts \cup OrchestratorPrompts \cup AgwPrompts
    \cup FgwPrompts

Command(cmd, arg, ok) == [cmd |-> cmd, arg |-> arg, ok |-> ok]

RunInit ==
    /\ pc = "main"
    /\ args \in [config : BOOLEAN, skip_prerequisites : BOOLEAN, dry_run : BOOLEAN]
    /\ cfgFile \in IF args.config THEN {<<>>} \cup {<<c>> : c \in FileConfigs} ELSE {<<>>}
    /\ config = EmptyConfig
    /\ loaded = <<>>
    /\ asked = {}
    /\ saved = <<>>
    /\ scripts = <<>>
    /\ commands = <<>>
    /\ missing = <<>>
    /\ todo = <<>>
    /\ idx = 0
    /\ out = <<>>
    /\ summary = <<>>
    /\ ret = "none"
    /\ exitCode = NoExit

\* run_deployment returns result after printing msg (no print when msg is "")
Return(result, msg) ==
    /\ ret' = result
    /\ out' = IF msg = "" THEN out ELSE Append(out, msg)
    /\ pc' = "returned"

\* run_deployment: except Exception: the failure is logged and printed, False returned
Fail == Return("false", "Deployment failed: exception")

\* main without --config
MainNoConfig ==
    /\ pc = "main"
    /\ ~args.config
    /\ pc' = "welcome"
    /\ UNCHANGED <<confirmVars, emailVars, genVars, args, cfgFile, config, loaded, asked, saved, scripts, commands,
                   missing, todo, idx, out, summary, ret, exitCode>>

\* main with --config: the file is read and parsed
MainLoadOk ==
    /\ pc = "main"
    /\ args.config
    /\ cfgFile # <<>>
    /\ config' = cfgFile[1]
    /\ loaded' = cfgFile
    /\ out' = Append(out, "Configuration loaded")
    /\ pc' = "welcome"
    /\ UNCHANGED <<confirmVars, emailVars, genVars, args, cfgFile, asked, saved, scripts, commands, missing, todo, idx,
                   summary, ret, exitCode>>

\* main with --config: open or yaml.safe_load raises
MainLoadError ==
    /\ pc = "main"
    /\ args.config
    /\ cfgFile = <<>>
    /\ out' = Append(out, "Error loading configuration")
    /\ exitCode' = LoadErrorCode
    /\ pc' = "exited"
    /\ UNCHANGED <<confirmVars, emailVars, genVars, args, cfgFile, config, loaded, asked, saved, scripts, commands,
                   missing, todo, idx, summary, ret>>

\* main with --config: the operator interrupts the load, which "except Exception"
\* does not catch
MainLoadInterrupted ==
    /\ pc = "main"
    /\ args.config
    /\ out' = Append(out, "Traceback: KeyboardInterrupt")
    /\ exitCode' = UncaughtInterruptStatus
    /\ pc' = "exited"
    /\ UNCHANGED <<confirmVars, emailVars, genVars, args, cfgFile, config, loaded, asked, saved, scripts, commands,
                   missing, todo, idx, summary, ret>>

\* welcome_message, then check_prerequisites unless --skip-prerequisites was given
WelcomeMessageSkipping ==
    /\ pc = "welcome"
    /\ \E a \in ConfirmAnswers :
          /\ asked' = asked \cup {"continue"}
          /\ IF confirm_action(a) = "true"
             THEN /\ pc' = IF args.skip_prerequisites THEN "select" ELSE "prereq"
                  /\ UNCHANGED <<out, exitCode>>
             ELSE /\ out' = Append(out, "Deployment cancelled.")
                  /\ exitCode' = WelcomeDeclineCode
                  /\ pc' = "exited"
    /\ UNCHANGED <<confirmVars, emailVars, genVars, args, cfgFile, config, loaded, saved, scripts, commands, missing,
                   todo, idx, summary, ret>>

\* welcome_message
WelcomeMessage ==
    /\ pc = "welcome"
    /\ \E a \in ConfirmAnswers :
          /\ asked' = asked \cup {"continue"}
          /\ IF confirm_action(a) = "true"
             THEN /\ pc' = "prereq"
                  /\ UNCHANGED <<out, exitCode>>
             ELSE /\ out' = Append(out, "Deployment cancelled.")
                  /\ exitCode' = WelcomeDeclineCode
                  /\ pc' = "exited"
    /\ UNCHANGED <<confirmVars, emailVars, genVars, args, cfgFile, config, loaded, saved, scripts, commands, missing,
                   todo, idx, summary, ret>>

\* run_deployment: except KeyboardInterrupt, wherever the run is waiting
Interrupt ==
    /\ pc \in InRun
    /\ Return(InterruptResult, "Deployment interrupted by user.")
    /\ UNCHANGED <<confirmVars, emailVars, genVars, args, cfgFile, config, loaded, asked, saved, scripts, commands,
                   missing, todo, idx, summary, exitCode>>

\* the tools of a set, in the order of the list
RECURSIVE InOrder(_, _)
InOrder(list, set) ==
    IF list = <<>> THEN <<>>
    ELSE (IF Head(list) \in set THEN <<Head(list)>> ELSE <<>>) \o InOrder(Tail(list), set)

WhichCommand ==
    [t \in {Tools[i] : i \in 1..Len(Tools)} |->
        CASE t = "docker" -> "which docker" [] t = "docker-compose" -> "which docker-compose"
          [] t = "kubectl" -> "which kubectl" [] t = "helm" -> "which helm"
          [] t = "git" -> "which git"]

\* check_prerequisites up to its prompt: every tool is probed with check=False
CheckPrerequisites ==
    /\ pc = "prereq"
    /\ \E notFound \in MissingSets :
          /\ commands' = commands \o
                [i \in 1..Len(Tools) |->
                    Command(WhichCommand[Tools[i]], <<>>, Tools[i] \notin notFound)]
          /\ missing' = InOrder(Tools, notFound)
          /\ pc' = IF notFound = {} THEN "select" ELSE "ask_install"
    /\ UNCHANGED <<confirmVars, emailVars, genVars, args, cfgFile, config, loaded, asked, saved, scripts, todo, idx, out,
                   summary, ret, exitCode>>

\* check_prerequisites: "install missing dependencies automatically?"
AskInstall ==
    /\ pc = "ask_install"
    /\ asked' = asked \cup {"install"}
    /\ \E a \in ConfirmAnswers :
          IF confirm_action(a) = "true"
          THEN /\ pc' = "detect_os"
               /\ UNCHANGED <<ret, out>>
          ELSE \* run_deployment: "if not self.check_prerequisites(): return False"
               IF DeclinedInstallResult = "false"
               THEN Return("false", "")
               ELSE /\ pc' = "select"
                    /\ UNCHANGED <<ret, out>>
    /\ UNCHANGED <<confirmVars, emailVars, genVars, args, cfgFile, config, loaded, saved, scripts, commands, missing,
                   todo, idx, summary, exitCode>>

\* install_prerequisites: the package manager for the markers found in /etc/os-release
PackageManager(markers) ==
    IF markers \cap {"ubuntu", "debian"} # {} THEN "apt"
    ELSE IF markers \cap {"centos", "rhel"} # {} THEN "yum"
    ELSE "unsupported"

\* install_docker: its commands, in order
InstallDocker(package_manager) ==
    (IF package_manager = "apt"
     THEN << "sudo apt-get update",
             "sudo apt-get install -y apt-transport-https ca-certificates curl gnupg lsb-release",
             "curl docker gpg | sudo gpg --dearmor",
             "echo deb docker | sudo tee /etc/apt/sources.list.d/docker.list",
             "sudo apt-get update",
             "sudo apt-get install -y docker-ce docker-ce-cli containerd.io" >>
     ELSE << "sudo yum install -y yum-utils",
             "sudo yum-config-manager --add-repo docker-ce.repo",
             "sudo yum install -y docker-ce docker-ce-cli containerd.io" >>)
    \o << "sudo systemctl start docker",
          "sudo systemctl enable docker",
          "whoami",
          "sudo usermod -aG docker username" >>

\* install_docker_compose
InstallDockerCompose ==
    << "sudo curl -L docker-compose -o /usr/local/bin/docker-compose",
       "sudo chmod +x /usr/local/bin/docker-compose" >>

\* install_kubectl
InstallKubectl ==
    << "curl -LO kubectl",
       "sudo install -o root -g root -m 0755 kubectl /usr/local/bin/kubectl" >>

\* install_helm
InstallHelm == << "curl get-helm-3 | bash" >>

\* install_prerequisites: the commands that install one missing tool
InstallCommands(dep, package_manager) ==
    CASE dep = "docker" -> InstallDocker(package_manager)
      [] dep = "docker-compose" -> InstallDockerCompose
      [] dep = "kubectl" -> InstallKubectl
      [] dep = "helm" -> InstallHelm
      [] dep = "git" -> IF package_manager = "apt"
                        THEN << "sudo apt-get update && sudo apt-get install -y git" >>
                        ELSE << "sudo yum install -y git" >>

\* install_prerequisites: the commands of the loop over missing_deps, in order; the
\* first one that fails ends the loop
RECURSIVE InstallPlan(_, _)
InstallPlan(deps, package_manager) ==
    IF deps = <<>> THEN <<>>
    ELSE InstallCommands(Head(deps), package_manager)
         \o InstallPlan(Tail(deps), package_manager)

\* install_prerequisites: the operating system is detected. Whatever the command
\* raises, an interrupt included, is caught by the bare "except:"
DetectOS ==
    /\ pc = "detect_os"
    /\ \E ok \in BOOLEAN, markers \in OsReleases :
          /\ commands' = Append(commands, Command("cat /etc/os-release", <<>>, ok))
          /\ IF Raises(TRUE, ok)
             THEN /\ Return("false", "Could not detect OS.")
                  /\ todo' = todo
             ELSE IF PackageManager(markers) = "unsupported"
             THEN /\ Return("false", "Unsupported OS.")
                  /\ todo' = todo
             ELSE /\ todo' = InstallPlan(missing, PackageManager(markers))
                  /\ pc' = "install"
                  /\ UNCHANGED <<ret, out>>
    /\ UNCHANGED <<confirmVars, emailVars, genVars, args, cfgFile, config, loaded, asked, saved, scripts, missing, idx,
                   summary, exitCode>>

\* install_prerequisites, with a failure logged and the loop going on to the next
\* command
InstallStepContinuing ==
    /\ pc = "install"
    /\ todo # <<>>
    /\ \E ok \in BOOLEAN :
          commands' = Append(commands, Command(Head(todo), <<>>, ok))
    /\ todo' = Tail(todo)
    /\ pc' = IF Tail(todo) = <<>> THEN "select" ELSE "install"
    /\ UNCHANGED <<confirmVars, emailVars, genVars, args, cfgFile, config, loaded, asked, saved, scripts, missing, idx,
                   summary, ret, out, exitCode>>

\* install_prerequisites: the next installation command is run with check=True; a
\* failure is logged and False returned
InstallStep ==
    /\ pc = "install"
    /\ todo # <<>>
    /\ \E ok \in BOOLEAN :
          /\ commands' = Append(commands, Command(Head(todo), <<>>, ok))
          /\ IF Raises(TRUE, ok)
             THEN /\ Return("false", "")
                  /\ todo' = todo
             ELSE /\ todo' = Tail(todo)
                  /\ pc' = IF Tail(todo) = <<>> THEN "select" ELSE "install"
                  /\ UNCHANGED <<ret, out>>
    /\ UNCHANGED <<confirmVars, emailVars, genVars, args, cfgFile, config, loaded, asked, saved, scripts, missing, idx,
                   summary, exitCode>>

\* the validators of the re-prompting loops
IsValid(kind, value) ==
    IF kind = "email" THEN validate_email(value) ELSE validate_ip_address(value)

\* the loop of a validated prompt with "if" for "while": one more answer is read and
\* taken as it is
ReadValidatedOnce(answers, kind) ==
    LET r == get_user_input(answers, <<>>, TRUE)
    IN  IF ~r.done THEN r
        ELSE IF IsValid(kind, r.value) THEN r
        ELSE get_user_input(r.rest, <<>>, TRUE)

\* x = get_user_input(label); while not valid(x): x = get_user_input(label)
\* on the answers typed: [done, value, rest]
RECURSIVE ReadValidated(_, _)
ReadValidated(answers, kind) ==
    LET r == get_user_input(answers, <<>>, TRUE)
    IN  IF ~r.done THEN r
        ELSE IF IsValid(kind, r.value) THEN r
        ELSE ReadValidated(r.rest, kind)

\* the answer sequences that end such a loop, reading all of them
ValidatedAnswers(inputs, kind) ==
    {a \in SeqsUpTo(inputs, MaxTries) :
        LET r == ReadValidated(a, kind) IN r.done /\ r.rest = <<>>}

\* a re-prompting loop asked again: a valid answer was not the first answer that
\* get_user_input returned
Again(answers, kind) ==
    LET r == get_user_input(answers, <<>>, TRUE)
    IN  r.done /\ ~IsValid(kind, r.value)

\* the loop of the admin email prompt and of an IP address prompt, over the answer
\* sequences that end it: the value it leaves in the configuration, and whether it
\* asked again
EmailLoop ==
    {[value |-> ReadValidated(a, "email").value, again |-> Again(a, "email")] :
        a \in ValidatedAnswers(EmailInputs, "email")}
IpLoop ==
    {[value |-> ReadValidated(a, "ip").value, again |-> Again(a, "ip")] :
        a \in ValidatedAnswers(IpInputs, "ip")}

\* get_user_input answered once, for a prompt with a default
Answer(raw, default) == get_user_input(<<raw>>, default, TRUE).value

\* collect_deployment_config: the component menu
CollectSelection ==
    /\ pc = "select"
    /\ \E raw \in ChoiceInputs :
          LET choice == Answer(raw, S_1)
          IN  IF choice = S_5
              THEN \E picks \in [1..Len(Components) -> ConfirmOutcomes] :
                      LET custom == {i \in 1..Len(Components) : picks[i] = "true"}
                      IN  /\ config' = With(config, "components",
                                            InOrder(Components, {Components[i] : i \in custom}))
                          /\ asked' = asked \cup SelectionPrompts
              ELSE /\ config' =
                         IF choice = S_1 THEN With(config, "components", Components)
                         ELSE IF choice = S_2 THEN With(config, "components", <<"orchestrator">>)
                         ELSE IF choice = S_3 THEN With(config, "components", <<"agw">>)
                         ELSE IF choice = S_4 THEN With(config, "components", <<"fgw">>)
                         ELSE config
                   /\ asked' = asked \cup {"choice"}
    /\ pc' = "general"
    /\ UNCHANGED <<confirmVars, emailVars, genVars, args, cfgFile, loaded, saved, scripts,
                   commands, missing, todo, idx, out, summary, ret, exitCode>>

\* collect_deployment_config: domain, admin email and external IP
CollectGeneral ==
    /\ pc = "general"
    /\ \E d \in DomainInputs, e \in EmailLoop, ip \in IpLoop :
          /\ config' =
                With(With(With(config, "domain", Answer(d, S_magma_local)),
                          "admin_email", e.value),
                     "network", [external_ip |-> ip.value])
          /\ asked' = asked \cup GeneralPrompts
                       \cup (IF e.again THEN {"Admin email address again"} ELSE {})
                       \cup (IF ip.again THEN {"External IP address again"} ELSE {})
    /\ pc' = "orc8r"
    /\ UNCHANGED <<confirmVars, emailVars, genVars, args, cfgFile, loaded, saved, scripts, commands, missing, todo, idx,
                   out, summary, ret, exitCode>>

\* collect_orchestrator_config
collect_orchestrator_config(cfg, namespace, password) ==
    With(cfg, "orchestrator",
         [namespace |-> Answer(namespace, S_magma),
          storage_class |-> Answer(S_empty, S_standard),
          db_host |-> Answer(S_empty, S_postgresql),
          db_port |-> Answer(S_empty, S_5432),
          db_user |-> Answer(S_empty, S_magma),
          db_password |-> get_password(password),
          db_name |-> Answer(S_empty, S_magma),
          tls_cert_path |-> get_user_input(<<S_empty>>, S_tls_crt, FALSE).value,
          tls_key_path |-> get_user_input(<<S_empty>>, S_tls_key, FALSE).value])

\* collect_agw_config
collect_agw_config(cfg, ip) ==
    With(cfg, "agw",
         [interface |-> Answer(S_empty, S_eth0),
          ip_address |-> ip,
          mcc |-> Answer(S_empty, S_001),
          mnc |-> Answer(S_empty, S_01),
          tac |-> Answer(S_empty, S_1),
          s1ap_ip |-> Answer(S_empty, ip),
          s1ap_port |-> Answer(S_empty, S_36412)])

\* collect_fgw_config
collect_fgw_config(cfg) ==
    With(cfg, "fgw",
         [federation_id |-> Answer(S_empty, S_fgw01),
          served_network_ids |-> Split(Answer(S_empty, S_networks), ","),
          diameter_host |-> Answer(S_empty, S_fgw_magma_local),
          diameter_realm |-> Answer(S_empty, S_magma_local),
          diameter_port |-> Answer(S_empty, S_3868)])

\* collect_deployment_config: 'if "orchestrator" in self.config["components"]'
CollectOrchestrator ==
    /\ pc = "orc8r"
    /\ IF "components" \notin DOMAIN config
       THEN Fail /\ UNCHANGED <<config, asked>>
       ELSE /\ IF Selected(config, "orchestrator")
               THEN /\ \E ns \in NamespaceInputs, pw \in PasswordInputs :
                          config' = collect_orchestrator_config(config, ns, pw)
                    /\ asked' = asked \cup OrchestratorPrompts
               ELSE UNCHANGED <<config, asked>>
            /\ pc' = "agw"
            /\ UNCHANGED <<ret, out>>
    /\ UNCHANGED <<confirmVars, emailVars, genVars, args, cfgFile, loaded, saved, scripts, commands, missing, todo, idx,
                   summary, exitCode>>

\* collect_deployment_config: 'if "agw" in self.config["components"]'
CollectAgw ==
    /\ pc = "agw"
    /\ IF Selected(config, "agw")
       THEN \E ip \in IpLoop :
               /\ config' = collect_agw_config(config, ip.value)
               /\ asked' = asked \cup AgwPrompts
                            \cup (IF ip.again THEN {"AGW IP address again"} ELSE {})
       ELSE UNCHANGED <<config, asked>>
    /\ pc' = "fgw"
    /\ UNCHANGED <<confirmVars, emailVars, genVars, args, cfgFile, loaded, saved, scripts, commands, missing, todo, idx,
                   out, summary, ret, exitCode>>

\* collect_deployment_config: 'if "fgw" in self.config["components"]'
CollectFgw ==
    /\ pc = "fgw"
    /\ IF Selected(config, "fgw")
       THEN /\ config' = collect_fgw_config(config)
            /\ asked' = asked \cup FgwPrompts
       ELSE UNCHANGED <<config, asked>>
    /\ pc' = "save"
    /\ UNCHANGED <<confirmVars, emailVars, genVars, args, cfgFile, loaded, saved, scripts, commands, missing, todo, idx,
                   out, summary, ret, exitCode>>

\* collect_deployment_config with the yaml.dump left out
SaveConfigSkipped ==
    /\ pc = "save"
    /\ pc' = "proceed"
    /\ UNCHANGED <<confirmVars, emailVars, genVars, args, cfgFile, config, loaded, asked, saved, scripts, commands,
                   missing, todo, idx, out, summary, ret, exitCode>>

\* collect_deployment_config: yaml.dump(self.config) to config/deployment_config.yaml.
\* The file holds the mapping as it is at the write.
SaveConfig ==
    /\ pc = "save"
    /\ saved' = Append(saved, config)
    /\ pc' = "proceed"
    /\ UNCHANGED <<confirmVars, emailVars, genVars, args, cfgFile, config, loaded, asked, scripts, commands, missing,
                   todo, idx, out, summary, ret, exitCode>>

\* run_deployment: "Do you want to proceed with the deployment?"
Proceed ==
    /\ pc = "proceed"
    /\ asked' = asked \cup {"proceed"}
    /\ \E a \in ConfirmAnswers :
          IF confirm_action(a) = "true"
          THEN /\ pc' = "deploy"
               /\ idx' = 1
               /\ UNCHANGED <<ret, out>>
          ELSE /\ Return("false", "Deployment cancelled by user.")
               /\ idx' = idx
    /\ UNCHANGED <<confirmVars, emailVars, genVars, args, cfgFile, config, loaded, saved, scripts, commands, missing,
                   todo, summary, exitCode>>

\* the commands deploy_* run on the script they generated
ChmodCommand ==
    [orchestrator |-> "chmod +x scripts/deploy_orchestrator.sh",
     agw |-> "chmod +x scripts/deploy_agw.sh",
     fgw |-> "chmod +x scripts/deploy_fgw.sh",
     nms |-> "chmod +x scripts/deploy_nms.sh"]
\* deploy_fgw written as a copy of deploy_agw, the script path left unchanged
ExecuteCommandCopied ==
    [orchestrator |-> "scripts/deploy_orchestrator.sh",
     agw |-> "scripts/deploy_agw.sh",
     fgw |-> "scripts/deploy_agw.sh",
     nms |-> "scripts/deploy_nms.sh"]
ExecuteCommand ==
    [orchestrator |-> "scripts/deploy_orchestrator.sh",
     agw |-> "scripts/deploy_agw.sh",
     fgw |-> "scripts/deploy_fgw.sh",
     nms |-> "scripts/deploy_nms.sh"]

\* deploy_components: the head of the loop over config["components"], and after the
\* loop the summary and the return to run_deployment, which returns True
DeployNext ==
    /\ pc = "deploy"
    /\ IF "components" \notin DOMAIN config
       THEN Fail /\ UNCHANGED <<idx, summary>>
       ELSE IF idx <= Len(config.components)
       THEN /\ pc' = IF config.components[idx] = "orchestrator" THEN "namespace"
                     ELSE IF config.components[idx] \in {"agw", "fgw", "nms"} THEN "generate"
                     ELSE "deploy"
            /\ idx' = IF config.components[idx] \in {"orchestrator", "agw", "fgw", "nms"}
                      THEN idx ELSE idx + 1
            /\ UNCHANGED <<summary, ret, out>>
       ELSE LET r == display_deployment_summary(config)
            IN  /\ summary' = r.printed
                /\ idx' = idx
                /\ pc' = "returned"
                /\ IF r.ok
                   THEN /\ ret' = "true"
                        /\ out' = Append(out, "All selected components deployed successfully!")
                   ELSE /\ ret' = "false"
                        /\ out' = out \o <<"All selected components deployed successfully!",
                                           "Deployment failed: exception">>
    /\ UNCHANGED <<confirmVars, emailVars, genVars, args, cfgFile, config, loaded, asked, saved, scripts, commands,
                   missing, todo, exitCode>>

\* deploy_orchestrator: kubectl create namespace, whose failure is caught
CreateNamespace ==
    /\ pc = "namespace"
    /\ LET v == Lookup(config, Slot("namespace", "orchestrator", "namespace"))
       IN  IF ~v.found
           THEN Fail /\ UNCHANGED commands
           ELSE /\ \E ok \in BOOLEAN :
                      commands' = Append(commands,
                                         Command("kubectl create namespace", v.val, ok))
                /\ pc' = "generate"
                /\ UNCHANGED <<ret, out>>
    /\ UNCHANGED <<confirmVars, emailVars, genVars, args, cfgFile, config, loaded, asked, saved, scripts, missing, todo,
                   idx, summary, exitCode>>

\* deploy_*: generate_*_script(scripts/deploy_*.sh)
Generate ==
    /\ pc = "generate"
    /\ LET comp == config.components[idx]
           r == GenerateScript(config, comp)
       IN  IF r.ok
           THEN /\ scripts' = Append(scripts, [name |-> ScriptName[comp], content |-> r.content])
                /\ pc' = "chmod"
                /\ UNCHANGED <<ret, out>>
           ELSE Fail /\ UNCHANGED scripts
    /\ UNCHANGED <<confirmVars, emailVars, genVars, args, cfgFile, config, loaded, asked, saved, commands, missing, todo,
                   idx, summary, exitCode>>

\* deploy_*: run_command("chmod +x <script>")
Chmod ==
    /\ pc = "chmod"
    /\ \E ok \in BOOLEAN :
          /\ commands' = Append(commands,
                                Command(ChmodCommand[config.components[idx]], <<>>, ok))
          /\ IF Raises(TRUE, ok)
             THEN Fail
             ELSE /\ pc' = "execute"
                  /\ UNCHANGED <<ret, out>>
    /\ UNCHANGED <<confirmVars, emailVars, genVars, args, cfgFile, config, loaded, asked, saved, scripts, missing, todo,
                   idx, summary, exitCode>>

\* deploy_*: run_command(<script>), then "deployment completed" and the next component
Execute ==
    /\ pc = "execute"
    /\ \E ok \in BOOLEAN :
          /\ commands' = Append(commands,
                                Command(ExecuteCommand[config.components[idx]], <<>>, ok))
          /\ IF Raises(TRUE, ok)
             THEN Fail /\ idx' = idx
             ELSE /\ pc' = "deploy"
                  /\ idx' = idx + 1
                  /\ UNCHANGED <<ret, out>>
    /\ UNCHANGED <<confirmVars, emailVars, genVars, args, cfgFile, config, loaded, asked, saved, scripts, missing, todo,
                   summary, exitCode>>

\* main: the result of run_deployment decides the message and the exit status
Finish ==
    /\ pc = "returned"
    /\ out' = Append(out, IF ret = "true" THEN "Deployment completed successfully!"
                          ELSE "Deployment failed!")
    /\ exitCode' = ExitCodeOf(ret)
    /\ pc' = "exited"
    /\ UNCHANGED <<confirmVars, emailVars, genVars, args, cfgFile, config, loaded, asked, saved, scripts, commands,
                   missing, todo, idx, summary, ret>>

Next ==
    \/ MainNoConfig
    \/ MainLoadOk
    \/ MainLoadError
    \/ MainLoadInterrupted
    \/ WelcomeMessage
    \/ Interrupt
    \/ CheckPrerequisites
    \/ AskInstall
    \/ DetectOS
    \/ InstallStep
    \/ CollectSelection
    \/ CollectGeneral
    \/ CollectOrchestrator
    \/ CollectAgw
    \/ CollectFgw
    \/ SaveConfig
    \/ Proceed
    \/ DeployNext
    \/ CreateNamespace
    \/ Generate
    \/ Chmod
    \/ Execute
    \/ Finish

-----------------------------------------------------------------------------
(* The pure functions on their own.                                        *)

\* the run, not started
RunIdle ==
    /\ pc = "idle"
    /\ args = [config |-> FALSE, skip_prerequisites |-> FALSE, dry_run |-> FALSE]
    /\ cfgFile = <<>>
    /\ config = EmptyConfig
    /\ loaded = <<>>
    /\ asked = {}
    /\ saved = <<>>
    /\ scripts = <<>>
    /\ commands = <<>>
    /\ missing = <<>>
    /\ todo = <<>>
    /\ idx = 0
    /\ out = <<>>
    /\ summary = <<>>
    /\ ret = "none"
    /\ exitCode = NoExit

ConfirmIdle == cHist = <<>> /\ cRet = "none"
EmailIdle == eIn = <<>> /\ eRet = "none"
GenIdle == gCfg = EmptyConfig /\ gComp = "none" /\ gOut = <<>>

\* answers typed at a yes/no prompt
ConfirmInputs ==
    {S_y, S_Y, S_yes, S_YES, S_Yes, S_empty, S_n, S_no, S_N, S_NO, S_No,
     S_y_padded, S_n_padded, S_space, S_x, S_maybe, S_yy, S_0}

\* confirm_action: one turn of the loop
ConfirmPrompt ==
    /\ cRet = "none"
    /\ Len(cHist) < MaxPrompts
    /\ \E raw \in ConfirmInputs :
          /\ cHist' = Append(cHist, raw)
          /\ cRet' = ConfirmStep(raw)
    /\ UNCHANGED <<runVars, emailVars, genVars>>

\* the arguments validate_email is applied to
EmailStrings == StringsUpTo({"a", "@", "."}, MaxEmailLen) \cup EmailInputs \cup {S_two_at}

\* validate_email is applied
EmailValidate ==
    /\ eRet = "none"
    /\ eRet' = IF validate_email(eIn) THEN "true" ELSE "false"
    /\ UNCHANGED <<eIn, runVars, confirmVars, genVars>>

\* the configuration the questionnaire builds for the full stack
FullConfig ==
    collect_fgw_config(
        collect_agw_config(
            collect_orchestrator_config(
                [components |-> Components, domain |-> S_example_org,
                 admin_email |-> S_ops_example_org, network |-> [external_ip |-> S_ip_a]],
                S_empty, S_secret),
            <<S_ip_b>>))

\* the fields of the configuration: <<key>> or <<sub-record, key>>
FieldsOf(cfg) ==
    {<<k>> : k \in DOMAIN cfg}
    \cup UNION {{<<s, k>> : k \in DOMAIN cfg[s]} : s \in {"orchestrator", "agw", "fgw"} \cap DOMAIN cfg}

\* the configuration without a field
Remove(cfg, field) ==
    IF Len(field) = 1
    THEN IF field[1] \in DOMAIN cfg THEN Without(cfg, field[1]) ELSE cfg
    ELSE IF field[1] \in DOMAIN cfg /\ field[2] \in DOMAIN cfg[field[1]]
         THEN With(cfg, field[1], Without(cfg[field[1]], field[2]))
         ELSE cfg

\* the full configuration with at most n fields removed
RECURSIVE ConfigsMissing(_)
ConfigsMissing(n) ==
    IF n = 0 THEN {FullConfig}
    ELSE LET fewer == ConfigsMissing(n - 1)
         IN  fewer \cup {Remove(c, f) : c \in fewer, f \in FieldsOf(FullConfig)}

\* generate_*_script is called: what it writes to the file, or the error it raises
GenerateCall ==
    /\ gOut = <<>>
    /\ gOut' = <<GenerateScript(gCfg, gComp)>>
    /\ UNCHANGED <<gCfg, gComp, runVars, confirmVars, emailVars>>

-----------------------------------------------------------------------------
(* Specifications.                                                         *)

Init == RunInit /\ ConfirmIdle /\ EmailIdle /\ GenIdle
Spec == Init /\ [][Next]_vars

InitConfirm == RunIdle /\ ConfirmIdle /\ EmailIdle /\ GenIdle
NextConfirm == ConfirmPrompt
SpecConfirm == InitConfirm /\ [][NextConfirm]_vars

InitEmail == RunIdle /\ ConfirmIdle /\ GenIdle /\ eIn \in EmailStrings /\ eRet = "none"
NextEmail == EmailValidate
SpecEmail == InitEmail /\ [][NextEmail]_vars

InitGen ==
    /\ RunIdle /\ ConfirmIdle /\ EmailIdle
    /\ gCfg \in ConfigsMissing(MaxMissing)
    /\ gComp \in {Components[i] : i \in 1..Len(Components)}
    /\ gOut = <<>>
NextGen == GenerateCall
SpecGen == InitGen /\ [][NextGen]_vars

-----------------------------------------------------------------------------
(* Properties.                                                             *)

\* a line was printed by main or run_deployment
Printed(msg) == \E i \in 1..Len(out) : out[i] = msg

Interrupted == Printed("Deployment interrupted by user.")
WelcomeDeclined == Printed("Deployment cancelled.")
FinalDeclined == Printed("Deployment cancelled by user.")
ExceptionRaised == Printed("Deployment failed: exception")
LoadFailed == Printed("Error loading configuration")
Ended == pc = "exited"

\* a script was written whose text has val at the place at
ScriptHas(script, at, val) ==
    \E i \in 1..Len(script.content) :
        script.content[i].at = at /\ script.content[i].val = val

\* C1: the operator selects only the console by custom selection, with domain
\* example.org and admin email ops@example.org, confirms, and every command
\* succeeds: then exactly one script, deploy_nms.sh, is generated, it references
\* example.org, ops@example.org and port 8080, and the summary prints
\* https://example.org:8080.
C1_Scenario ==
    /\ ~args.config
    /\ "Deploy NMS?" \in asked
    /\ "proceed" \in asked
    /\ idx >= 1
    /\ DOMAIN config = {"components", "domain", "admin_email", "network"}
    /\ config.components = <<"nms">>
    /\ config.domain = S_example_org
    /\ config.admin_email = S_ops_example_org
    /\ \A i \in 1..Len(commands) : commands[i].ok
    /\ ~Interrupted

C1_ConsoleOnlyEndToEnd ==
    (Ended /\ C1_Scenario) =>
        /\ Len(scripts) = 1
        /\ scripts[1].name = "deploy_nms.sh"
        /\ ScriptHas(scripts[1], "global.domain", S_example_org)
        /\ ScriptHas(scripts[1], "nms.admin.email", S_ops_example_org)
        /\ ScriptHas(scripts[1], "nms.port", S_8080)
        /\ \E i \in 1..Len(summary) :
              /\ summary[i].at = "NMS Portal"
              /\ summary[i].val = S_https \o S_example_org \o S_colon_8080

\* C2: when --config loads, the questionnaire is never run and the configuration
\* that script generation and the summary consume is the loaded one, unmodified.
C2_LoadedConfigSkipsQuestionnaire ==
    loaded # <<>> =>
        /\ asked \cap ConfigPrompts = {}
        /\ (scripts # <<>> \/ summary # <<>> \/ idx >= 1) => config = loaded[1]

\* collect_deployment_config has completed: it ends with the write of the file
CollectionDone == saved # <<>>

\* C3: after the collection has completed, for each of orchestrator, agw and fgw the
\* configuration holds the sub-record if and only if the tag is in config.components.
C3_SubRecordIffSelected ==
    CollectionDone =>
        \A c \in {"orchestrator", "agw", "fgw"} :
            (SubRecordOf[c] \in DOMAIN config) <=> Selected(config, c)

\* the key a substitution point reads is absent from the configuration
Absent(cfg, slot) ==
    IF slot.sec = "" THEN slot.key \notin DOMAIN cfg
    ELSE slot.sec \notin DOMAIN cfg \/ slot.key \notin DOMAIN cfg[slot.sec]

\* the substitution points of the template of a component
SlotsOf(comp) ==
    {TemplateOf[comp][i] : i \in {j \in 1..Len(TemplateOf[comp]) : ~TemplateOf[comp][j].literal}}

\* C4 as stated: whenever a field that the template of the component references is
\* absent, generation fails with a missing-key error and writes nothing; no
\* fallback value is ever substituted.
C4_EveryAbsentFieldFails ==
    gOut # <<>> =>
        \A slot \in SlotsOf(gComp) :
            Absent(gCfg, slot) => (~gOut[1].ok /\ gOut[1].error = "KeyError")

\* C4 as amended: an absent field fails generation with a missing-key error and
\* nothing is written, except the orchestrator's tls_cert_path and tls_key_path,
\* which the template reads with a default: when only those are absent (the
\* orchestrator sub-record being present), the script is written with the default
\* paths /opt/magma/certs/tls.crt and /opt/magma/certs/tls.key in their place.
C4_AbsentFieldFailsExceptTlsPaths ==
    gOut # <<>> =>
        /\ \A slot \in SlotsOf(gComp) :
              (Absent(gCfg, slot)
                  /\ ~(slot.sec = "orchestrator" /\ slot.sec \in DOMAIN gCfg
                       /\ slot.key \in {"tls_cert_path", "tls_key_path"}))
              => (~gOut[1].ok /\ gOut[1].error = "KeyError")
        /\ gOut[1].ok =>
              \A i \in 1..Len(TemplateOf[gComp]) :
                  LET slot == TemplateOf[gComp][i]
                  IN  (~slot.literal /\ Absent(gCfg, slot)) =>
                          /\ slot.key \in {"tls_cert_path", "tls_key_path"}
                          /\ gOut[1].content[i].val =
                                (IF slot.key = "tls_cert_path" THEN S_tls_crt ELSE S_tls_key)

\* a field without a default is absent and generation has failed
C4_Witness ==
    /\ gOut # <<>>
    /\ gComp = "nms"
    /\ "admin_email" \notin DOMAIN gCfg
    /\ ~gOut[1].ok

\* C5: declining the initial continue-prompt exits with status 0, and by then no
\* configuration file and no script has been written and no command has been run.
C5_WelcomeDeclineExitsClean ==
    WelcomeDeclined =>
        /\ Ended
        /\ exitCode = 0
        /\ saved = <<>>
        /\ scripts = <<>>
        /\ commands = <<>>

C5_Witness == WelcomeDeclined /\ Ended /\ loaded # <<>>

\* check_prerequisites or install_prerequisites returned failure: the run ended
\* after the installation prompt and before any question of the questionnaire
PrerequisitesFailed ==
    /\ ret = "false"
    /\ "install" \in asked
    /\ asked \cap ConfigPrompts = {}
    /\ ~Interrupted

UncaughtException == Printed("Traceback: KeyboardInterrupt")
FailedPath == Printed("Deployment failed!")

\* C6 as stated: exit status 1 through the "Deployment failed" path, never through an
\* uncaught exception, on a prerequisite failure, an interrupt inside
\* run_deployment, any exception during the run, and a declined final confirmation;
\* exit status 1 without an uncaught exception when the configuration cannot be
\* loaded (main reports it and exits itself); exit status 0 only when
\* run_deployment returned True.
C6_ExitCodes ==
    Ended =>
        /\ (PrerequisitesFailed \/ Interrupted \/ ExceptionRaised \/ FinalDeclined)
           => (exitCode = 1 /\ FailedPath /\ ~UncaughtException)
        /\ LoadFailed => (exitCode = 1 /\ ~UncaughtException)
        /\ exitCode = 0 => ret = "true"

\* C6 as amended: the same exit status 1 in each of the cases; exit status 0 only
\* when run_deployment returned True or the operator declined the initial
\* continue-prompt (sys.exit(0) in welcome_message, which no handler catches).
C6_ExitCodesAmended ==
    Ended =>
        /\ (PrerequisitesFailed \/ Interrupted \/ ExceptionRaised \/ FinalDeclined)
           => (exitCode = 1 /\ FailedPath /\ ~UncaughtException)
        /\ LoadFailed => (exitCode = 1 /\ ~UncaughtException)
        /\ exitCode = 0 => (ret = "true" \/ WelcomeDeclined)

C6_Witness == Ended /\ Interrupted /\ saved # <<>> /\ exitCode = 1

\* the number of times check_prerequisites has run: it probes docker first
PrerequisiteRuns ==
    Cardinality({i \in 1..Len(commands) : commands[i].cmd = "which docker"})

\* a tool was missing and the operator declined the installation: the prompt was
\* answered and the installer never started
InstallDeclined ==
    /\ "install" \in asked
    /\ pc \in {"returned", "exited"}
    /\ \A i \in 1..Len(commands) : commands[i].cmd # "cat /etc/os-release"

\* C7: the prerequisite check runs once, never twice, and before any question of
\* the questionnaire; when a tool is missing and the operator declines the
\* installation, the check returns failure and the run ends (status 1) without a
\* configuration question, a configuration file, a script or a script execution.
C7_PrerequisitesGate ==
    /\ PrerequisiteRuns <= 1
    /\ pc \in (InRun \cup {"detect_os"}) \ {"welcome", "prereq"} => PrerequisiteRuns = 1
    /\ (asked \cap ConfigPrompts # {} \/ saved # <<>> \/ scripts # <<>>)
       => PrerequisiteRuns = 1
    /\ InstallDeclined =>
          /\ ret = "false"
          /\ missing # <<>>
          /\ asked \cap ConfigPrompts = {}
          /\ saved = <<>>
          /\ scripts = <<>>
          /\ \A i \in 1..Len(commands) :
                \E t \in DOMAIN WhichCommand : commands[i].cmd = WhichCommand[t]
          /\ Ended => exitCode = 1

C7_Witness == InstallDeclined /\ Ended /\ args.skip_prerequisites

\* the commands deploy_components runs with check=True and no handler
DeployCommands ==
    {ChmodCommand[c] : c \in DOMAIN ChmodCommand}
    \cup {ExecuteCommand[c] : c \in DOMAIN ExecuteCommand}

\* the positions in the log of the deployment commands that exited non-zero
FailedDeployCommands ==
    {i \in 1..Len(commands) : commands[i].cmd \in DeployCommands /\ ~commands[i].ok}

\* C8: a command of deploy_components that exits non-zero, other than kubectl
\* create namespace, aborts the run: it is the last command issued (none follows,
\* it is not retried), the last script generated is the failing component's (no
\* later one is generated), the summary is not printed, run_deployment returns
\* False and the process exits with status 1.
C8_FailedCommandAborts ==
    \A i \in FailedDeployCommands :
        /\ i = Len(commands)
        /\ pc \in {"returned", "exited"}
        /\ ret = "false"
        /\ summary = <<>>
        /\ Len(scripts) = idx
        /\ commands[i].cmd \in {ChmodCommand[config.components[idx]],
                                ExecuteCommand[config.components[idx]]}
        /\ ExceptionRaised
        /\ Ended => exitCode = 1

\* a script failed while a later component was still to be deployed, after a
\* tolerated failure of kubectl create namespace
C8_Witness ==
    /\ Ended
    /\ FailedDeployCommands # {}
    /\ idx < Len(config.components)
    /\ \E i \in 1..Len(commands) :
          commands[i].cmd = "kubectl create namespace" /\ ~commands[i].ok

\* the answers the claim lists
LiteralYes == {S_y, S_Y, S_yes, S_YES}
LiteralNo == {S_empty, S_n, S_no}

\* the result the first listed answer of a sequence decides, "none" without one
RECURSIVE LiteralDecision(_)
LiteralDecision(answers) ==
    IF answers = <<>> THEN "none"
    ELSE IF Head(answers) \in LiteralYes THEN "true"
    ELSE IF Head(answers) \in LiteralNo THEN "false"
    ELSE LiteralDecision(Tail(answers))

\* C9 as stated: confirm_action returns true on "y", "Y", "yes", "YES", false on "",
\* "n", "no", and asks again on any other answer, so the first answer of the
\* sequence that is one of those seven decides the result.
C9_FirstListedAnswerDecides == cRet = LiteralDecision(cHist)

\* the same letter, whatever its case
SameLetter(c, d) ==
    \/ c = d
    \/ <<c, d>> \in {<<"Y", "y">>, <<"E", "e">>, <<"S", "s">>, <<"N", "n">>, <<"O", "o">>}

\* the answer is the word, in any letter case and with any whitespace around it
IsWord(raw, word) ==
    \E lead \in 0..Len(raw) :
        /\ Len(raw) - lead >= Len(word)
        /\ \A k \in 1..lead : IsSpace(raw[k])
        /\ \A k \in 1..Len(word) : SameLetter(raw[lead + k], word[k])
        /\ \A k \in (lead + Len(word) + 1)..Len(raw) : IsSpace(raw[k])

RECURSIVE FoldedDecision(_)
FoldedDecision(answers) ==
    IF answers = <<>> THEN "none"
    ELSE IF IsWord(Head(answers), S_y) \/ IsWord(Head(answers), S_yes) THEN "true"
    ELSE IF \E w \in {S_n, S_no, S_empty} : IsWord(Head(answers), w) THEN "false"
    ELSE FoldedDecision(Tail(answers))

\* C9 as amended: confirm_action returns true on an answer that is y or yes in any
\* letter case and with any surrounding whitespace, false on one that is n, no or
\* empty in the same sense, and asks again on any other; the first such answer of
\* the sequence decides the result.
C9_FirstFoldedAnswerDecides == cRet = FoldedDecision(cHist)

\* an answer outside the listed seven decided, after a re-prompt
C9_Witness ==
    /\ Len(cHist) >= 2
    /\ cRet = "false"
    /\ cHist[Len(cHist)] \notin (LiteralYes \cup LiteralNo)

\* the number of occurrences of a character
CountOf(s, c) == Cardinality({i \in 1..Len(s) : s[i] = c})

\* the text after the last occurrence of a character that occurs
AfterLast(s, c) ==
    LET i == CHOOSE k \in 1..Len(s) : s[k] = c /\ \A j \in (k + 1)..Len(s) : s[j] # c
    IN  SubSeq(s, i + 1, Len(s))

\* C10: validate_email returns true only on a string with exactly one "@" and a "."
\* somewhere after it; so it returns false on every string without "@" and on every
\* string whose text after the last "@" has no ".".
C10_EmailOneAtThenDot ==
    eRet # "none" =>
        /\ eRet = "true" =>
              /\ CountOf(eIn, "@") = 1
              /\ \E i, j \in 1..Len(eIn) : i < j /\ eIn[i] = "@" /\ eIn[j] = "."
        /\ (~Contains(eIn, "@") \/ ~Contains(AfterLast(eIn, "@"), ".")) => eRet = "false"

\* the fields the questionnaire reads with no default and required, where the
\* configuration has them
RequiredFields ==
    (IF "admin_email" \in DOMAIN config THEN {config.admin_email} ELSE {})
    \cup (IF "network" \in DOMAIN config THEN {config.network.external_ip} ELSE {})
    \cup (IF "agw" \in DOMAIN config THEN {config.agw.ip_address} ELSE {})
    \cup (IF "orchestrator" \in DOMAIN config
          THEN {config.orchestrator.db_password} ELSE {})

\* C11: a prompt returns only on a non-empty answer, on its default, or, for a field
\* declared not required, on an empty answer: no required field without a default
\* (admin email, external IP, AGW IP address, database password) is ever stored as
\* the empty string.
C11_RequiredFieldNeverEmpty == \A v \in RequiredFields : v # S_empty

\* the places of run_deployment after check_prerequisites has probed the tools
PastProbes ==
    {"ask_install", "detect_os", "install", "select", "general", "orc8r", "agw",
     "fgw", "save", "proceed", "deploy", "namespace", "generate", "chmod", "execute"}

\* the log of commands starts with the five probes of check_prerequisites, in order
ProbesIssued ==
    /\ Len(commands) >= Len(Tools)
    /\ \A i \in 1..Len(Tools) : commands[i].cmd = WhichCommand[Tools[i]]

\* the script of a component was made executable and then run, both with success
ScriptExecuted(comp) ==
    \E i \in 1..(Len(commands) - 1) :
        /\ commands[i] = Command(ChmodCommand[comp], <<>>, TRUE)
        /\ commands[i + 1] = Command(ExecuteCommand[comp], <<>>, TRUE)

\* the components deploy_components has finished with
ComponentsDone ==
    IF "components" \notin DOMAIN config THEN {}
    ELSE {config.components[k] :
            k \in {n \in 1..Len(config.components) : n < idx \/ ret = "true"}}

\* what a run has asked, issued and written at the place it has reached, with no
\* regard to the command line: the probes before anything else, the whole
\* questionnaire and the configuration file before the final confirmation, and
\* for every component deployed its script written, made executable and run
StageRequires ==
    /\ (pc \in PastProbes \/ asked \cap ConfigPrompts # {} \/ "install" \in asked)
       => ProbesIssued
    /\ (pc \in {"proceed", "deploy", "namespace", "generate", "chmod", "execute"}
        \/ "proceed" \in asked)
       => /\ saved = <<config>>
          /\ {"choice"} \cup GeneralPrompts \subseteq asked
    /\ \A comp \in ComponentsDone :
          /\ \E k \in 1..Len(scripts) : scripts[k].name = ScriptName[comp]
          /\ ScriptExecuted(comp)
    /\ ret = "true" => Len(scripts) = Len(config.components)

InstallerCommands ==
    UNION {{InstallPlan(Tools, pm)[i] : i \in 1..Len(InstallPlan(Tools, pm))} :
             pm \in {"apt", "yum"}}

\* the positions in the log of the installation commands
InstallPositions == {i \in 1..Len(commands) : commands[i].cmd \in InstallerCommands}

\* the positions in the log of the installation commands that exited non-zero
FailedInstallCommands == {i \in InstallPositions : ~commands[i].ok}

\* the names of the installation commands issued, in order
RECURSIVE InstallLog(_)
InstallLog(log) ==
    IF log = <<>> THEN <<>>
    ELSE (IF Head(log).cmd \in InstallerCommands THEN <<Head(log).cmd>> ELSE <<>>)
         \o InstallLog(Tail(log))

\* C13: the first installation command that fails aborts the installer: it is the
\* last command of the run (none for that tool or a later one follows, none undoes
\* an earlier one), the commands issued before it are the start of the plan for the
\* missing tools and stay as issued, install_prerequisites returns False, and the
\* run ends with status 1 with no question of the questionnaire asked and no file
\* written.
C13_FailedInstallAborts ==
    \A i \in FailedInstallCommands :
        /\ i = Len(commands)
        /\ \A j \in InstallPositions \ {i} : commands[j].ok
        /\ \E pm \in {"apt", "yum"} :
              LET plan == InstallPlan(missing, pm)
                  done == InstallLog(commands)
              IN  /\ Len(done) <= Len(plan)
                  /\ done = SubSeq(plan, 1, Len(done))
                  /\ todo = SubSeq(plan, Len(done), Len(plan))
        /\ pc \in {"returned", "exited"}
        /\ ret = "false"
        /\ ~Interrupted
        /\ asked \cap ConfigPrompts = {}
        /\ config = IF loaded = <<>> THEN EmptyConfig ELSE loaded[1]
        /\ saved = <<>>
        /\ scripts = <<>>
        /\ Ended => exitCode = 1

\* the installer failed on the first command of a tool after it had installed an
\* earlier tool, with a later tool still missing
C13_Witness ==
    /\ Ended
    /\ exitCode = 1
    /\ FailedInstallCommands # {}
    /\ missing = <<"docker-compose", "kubectl", "helm">>
    /\ InstallLog(commands) = InstallDockerCompose \o <<Head(InstallKubectl)>>

\* the places of run_deployment from the final confirmation on
AfterCollection == {"proceed", "deploy", "namespace", "generate", "chmod", "execute"}

\* one step of the run, for C14
ConfigWrittenOnceThenFrozen ==
    \* the file is written at most once, by the last step of collect_deployment_config
    /\ Len(saved') <= 1
    /\ saved' # saved =>
          /\ saved = <<>>
          /\ pc = "save"
          /\ pc' = "proceed"
          /\ asked \cap ConfigPrompts # {}
          /\ "proceed" \notin asked'
    \* it has been written when the final confirmation is asked and when anything is
    \* deployed
    /\ (pc' \in AfterCollection \/ "proceed" \in asked' \/ scripts' # <<>>
        \/ summary' # <<>>)
       => Len(saved') = 1
    \* once it is written, the configuration in memory stays what the file holds
    /\ saved # <<>> => (config' = config /\ saved' = saved)
    /\ saved' # <<>> => saved' = <<config'>>

\* C14: the configuration file is written once, at the end of
\* collect_deployment_config and before the final confirmation is asked, never
\* twice, and from that write on the configuration in memory is not modified, so
\* the file equals the configuration that is deployed and summarised.
C14_ConfigWrittenOnceThenFrozen == [][ConfigWrittenOnceThenFrozen]_vars

\* a run that loaded a configuration, replaced it in the questionnaire, wrote the
\* file, deployed and printed the summary
C14_Witness ==
    /\ Ended
    /\ ret = "true"
    /\ loaded # <<>>
    /\ saved = <<config>>
    /\ config # loaded[1]
    /\ Len(scripts) >= 2
    /\ summary # <<>>

\* the prompts of the validation loops, asked again after a malformed answer
RepeatedPrompts ==
    {"Admin email address again", "External IP address again", "AGW IP address again"}

\* the email and the addresses a configuration holds pass the validators
ValidatedFieldsOk(cfg) ==
    /\ "admin_email" \in DOMAIN cfg /\ validate_email(cfg.admin_email)
    /\ "network" \in DOMAIN cfg /\ validate_ip_address(cfg.network.external_ip)
    /\ Selected(cfg, "agw") =>
          "agw" \in DOMAIN cfg /\ validate_ip_address(cfg.agw.ip_address)

\* C15: a malformed email or IP address is asked again, never stored and never the
\* end of the run: after a repeated prompt the questionnaire goes on with no
\* exception raised; the loops of the questionnaire leave an admin_email that passes
\* validate_email and a network.external_ip and an agw.ip_address that pass
\* validate_ip_address; and so do the configuration when the file has just been
\* written and when a script has just been generated (agw.ip_address when agw is
\* selected).
C15_MalformedInputNeverStored ==
    /\ pc = "proceed" => (saved # <<>> /\ ValidatedFieldsOk(saved[Len(saved)]))
    /\ pc = "chmod" => (scripts # <<>> /\ ValidatedFieldsOk(config))
    /\ pc \in {"orc8r", "agw", "fgw", "save"} =>
          /\ validate_email(config.admin_email)
          /\ validate_ip_address(config.network.external_ip)
          /\ asked \cap RepeatedPrompts # {} => ret = "none"
    /\ pc \in {"fgw", "save"} /\ "AGW IP address" \in asked =>
          validate_ip_address(config.agw.ip_address)

\* every validated prompt was asked again after a malformed answer, and the run
\* went on to write the file and to deploy the access gateway
C15_Witness ==
    /\ RepeatedPrompts \subseteq asked
    /\ saved # <<>>
    /\ \E k \in 1..Len(scripts) : scripts[k].name = ScriptName["agw"]
    /\ ret = "true"
    /\ Ended

\* for the file of a script: the command that makes it executable and the command
\* that runs it
ScriptCommands ==
    [n \in {"deploy_orchestrator.sh", "deploy_agw.sh", "deploy_fgw.sh", "deploy_nms.sh"} |->
        CASE n = "deploy_orchestrator.sh" ->
                <<"chmod +x scripts/deploy_orchestrator.sh", "scripts/deploy_orchestrator.sh">>
          [] n = "deploy_agw.sh" -> <<"chmod +x scripts/deploy_agw.sh", "scripts/deploy_agw.sh">>
          [] n = "deploy_fgw.sh" -> <<"chmod +x scripts/deploy_fgw.sh", "scripts/deploy_fgw.sh">>
          [] n = "deploy_nms.sh" -> <<"chmod +x scripts/deploy_nms.sh", "scripts/deploy_nms.sh">>]

\* the commands on scripts, of those issued, in order
RECURSIVE ScriptLog(_)
ScriptLog(log) ==
    IF log = <<>> THEN <<>>
    ELSE (IF \E n \in DOMAIN ScriptCommands :
                Head(log).cmd \in {ScriptCommands[n][1], ScriptCommands[n][2]}
          THEN <<Head(log)>> ELSE <<>>)
         \o ScriptLog(Tail(log))

\* for the scripts written, in order: make the first executable, run it, make the
\* second executable, run it, ...
RECURSIVE ExpectedScriptLog(_)
ExpectedScriptLog(written) ==
    IF written = <<>> THEN <<>>
    ELSE ScriptCommands[Head(written).name] \o ExpectedScriptLog(Tail(written))

\* deploy_components left its loop: the line it prints right before the summary
AllDeployed == Printed("All selected components deployed successfully!")

\* C16: the components are deployed one at a time in the order of
\* config.components: the scripts written are those of the first entries of the
\* list, one each and in list order; the commands on scripts are, for each script
\* written and in that order, chmod and then the run, each once; a script is
\* written only after the previous one ran with success; the summary is printed
\* only after the last component's script ran with success; and a run that ends
\* with status 0 after the final confirmation has done all of it for every entry.
C16_ComponentsDeployedInOrder ==
    LET done == ScriptLog(commands)
        expected == ExpectedScriptLog(scripts)
        all == IF "components" \in DOMAIN config THEN config.components ELSE <<>>
    IN  /\ Len(scripts) <= Len(all)
        /\ \A k \in 1..Len(scripts) : scripts[k].name = ScriptName[all[k]]
        /\ \A k, l \in 1..Len(scripts) : scripts[k].name = scripts[l].name => k = l
        /\ Len(done) <= Len(expected)
        /\ \A i \in 1..Len(done) : done[i].cmd = expected[i]
        /\ scripts # <<>> => Len(done) >= 2 * (Len(scripts) - 1)
        /\ \A i \in 1..Len(done) :
              ~done[i].ok => (i = Len(done) /\ ret = "false" /\ summary = <<>>)
        /\ (summary # <<>> \/ AllDeployed) =>
              (Len(scripts) = Len(all) /\ Len(done) = 2 * Len(all))
        /\ (Ended /\ exitCode = 0 /\ "proceed" \in asked) =>
              /\ ret = "true"
              /\ AllDeployed
              /\ all # <<>> => summary # <<>>
              /\ Len(scripts) = Len(all)
              /\ Len(done) = 2 * Len(all)
              /\ \A i \in 1..Len(done) : done[i].ok

\* the full stack was deployed and the run ended with status 0
C16_Witness ==
    /\ Ended
    /\ exitCode = 0
    /\ "proceed" \in asked
    /\ config.components = Components
    /\ Len(scripts) = Len(Components)
    /\ Len(ScriptLog(commands)) = 2 * Len(Components)
    /\ summary # <<>>

=============================================================================
